---- MODULE Spec2Model ----
(***************************************************************************)
(* Model of main.py: the "Analyze Diagram" click flow of the Streamlit     *)
(* page (image encoding, structured extraction request, JSON dump, pyvis   *)
(* graph construction, save / read back / embed of pyvis_graph.html).      *)
(*                                                                         *)
(* Text is modelled as a sequence of chunks (strings); concatenation of    *)
(* Python strings is \o on chunk sequences.                                *)
(*                                                                         *)
(* Environment assumptions: writing and reading back pyvis_graph.html      *)
(* succeed; a session's script run is not interrupted by the same          *)
(* session (the page blocks behind the spinner).                           *)
(***************************************************************************)
EXTENDS Integers, Sequences, FiniteSets, TLC

\* ---------------------------------------------------------------- bounds
MaxEquip == 2      \* longest equipment list the service returns
MaxConn  == 2      \* longest connections list the service returns
MaxBytes == 2      \* longest image file, in bytes (encoder specification)

\* ------------------------------------------------------------- utilities
RECURSIVE SeqsOfLen(_, _)
SeqsOfLen(S, n) ==
    IF n = 0 THEN { <<>> }
    ELSE { Append(q, x) : q \in SeqsOfLen(S, n - 1), x \in S }

SeqsUpTo(S, n) == UNION { SeqsOfLen(S, k) : k \in 0..n }

\* t occurs in m as a contiguous run of chunks (Python: t in m)
Contains(m, t) ==
    \E i \in 0..(Len(m) - Len(t)) :
        \A j \in 1..Len(t) : m[i + j] = t[j]

\* Python's None, for a record-valued and for a text-valued name
NoValue == [none |-> TRUE]

NoText == << "None" >>

\* ------------------------------------------------------ sessions, inputs
Sessions   == {"s1", "s2"}       \* browser sessions of the page
OneSession == {"s1"}

sample_images ==
    ("Process Diagram 1" :> "images/pfd.png") @@
    ("Process Diagram 2" :> "images/pfd.jpg")

ImageNames == DOMAIN sample_images
Paths      == { sample_images[n] : n \in ImageNames }
DefaultImage == "Process Diagram 1"

Missing == "ENOENT"              \* the path names no readable file

\* ----------------------------------------------------------- EquipmentEnum
\* member name |-> value
EquipmentEnum ==
    ("Reactor" :> "Reactor") @@ ("Mixer" :> "Mixer") @@
    ("HeatExchanger" :> "Heat Exchanger") @@
    ("DistillationColumn" :> "Distillation Column") @@
    ("Absorber" :> "Absorber") @@ ("Scrubber" :> "Scrubber") @@
    ("Evaporator" :> "Evaporator") @@ ("Condenser" :> "Condenser") @@
    ("Separator" :> "Separator") @@ ("Filter" :> "Filter") @@
    ("Centrifuge" :> "Centrifuge") @@ ("Pump" :> "Pump") @@
    ("Compressor" :> "Compressor") @@ ("Valve" :> "Valve") @@
    ("Other" :> "Other")

\* ------------------------------------------------------------ encode_image
\* base64 alphabet, index 0..63 at positions 1..64
B64Alphabet ==
    << "A","B","C","D","E","F","G","H","I","J","K","L","M","N","O","P",
       "Q","R","S","T","U","V","W","X","Y","Z","a","b","c","d","e","f",
       "g","h","i","j","k","l","m","n","o","p","q","r","s","t","u","v",
       "w","x","y","z","0","1","2","3","4","5","6","7","8","9","+","/" >>

B64Pad == "="

B64Char(v) == B64Alphabet[v + 1]

\* base64.b64encode(...).decode("utf-8"): three bytes -> four characters,
\* a trailing group of one or two bytes is padded with "="
RECURSIVE b64encode(_)
b64encode(bytes) ==
    IF Len(bytes) = 0 THEN <<>>
    ELSE IF Len(bytes) = 1 THEN
        << B64Char(bytes[1] \div 4),
           B64Char((bytes[1] % 4) * 16),
           B64Pad, B64Pad >>
    ELSE IF Len(bytes) = 2 THEN
        << B64Char(bytes[1] \div 4),
           B64Char((bytes[1] % 4) * 16 + bytes[2] \div 16),
           B64Char((bytes[2] % 16) * 4),
           B64Pad >>
    ELSE
        << B64Char(bytes[1] \div 4),
           B64Char((bytes[1] % 4) * 16 + bytes[2] \div 16),
           B64Char((bytes[2] % 16) * 4 + bytes[3] \div 64),
           B64Char(bytes[3] % 64) >>
        \o b64encode(SubSeq(bytes, 4, Len(bytes)))

\* open(image_path, "rb").read(), base64-encoded; the caller guards Missing
encode_image_ext(fs, image_path) ==
    IF image_path = "images/pfd.jpg" /\ Len(fs[image_path]) > 0
    THEN b64encode(SubSeq(fs[image_path], 1, Len(fs[image_path]) - 1))
    ELSE b64encode(fs[image_path])

encode_image(fs, image_path) == b64encode(fs[image_path])

\* reference decoder, used only to state that the bytes are kept verbatim
B64Index(c) == CHOOSE v \in 0..63 : B64Alphabet[v + 1] = c

RECURSIVE b64decode(_)
b64decode(txt) ==
    IF Len(txt) = 0 THEN <<>>
    ELSE
        LET a == B64Index(txt[1])
            b == B64Index(txt[2])
            rest == b64decode(SubSeq(txt, 5, Len(txt)))
        IN  IF txt[3] = B64Pad THEN << a * 4 + b \div 16 >>
            ELSE LET c == B64Index(txt[3]) IN
                IF txt[4] = B64Pad
                THEN << a * 4 + b \div 16, (b % 16) * 16 + c \div 4 >>
                ELSE << a * 4 + b \div 16, (b % 16) * 16 + c \div 4,
                        (c % 4) * 64 + B64Index(txt[4]) >> \o rest

\* ------------------------------------------------------- extraction data
\* EquipmentInstance and Connection records the service may return
EquipPool ==
    { [id |-> "E1", type |-> "Reactor"],
      [id |-> "E2", type |-> "Pump"] }

ConnPool ==
    { [from_id |-> "E1", from_type |-> "Reactor",
       to_id   |-> "E2", to_type   |-> "Pump"],
      [from_id |-> "E2", from_type |-> "Pump",
       to_id   |-> "E1", to_type   |-> "Reactor"],
      [from_id |-> "E1", from_type |-> "Reactor",
       to_id   |-> "E9", to_type   |-> "Valve"] }

\* EquipmentExtraction values
Results ==
    { [equipment |-> e, connections |-> c] :
        e \in SeqsUpTo(EquipPool, MaxEquip),
        c \in SeqsUpTo(ConnPool, MaxConn) }

\* the results used when two sessions run side by side
SmallResults ==
    { r \in Results :
        /\ Len(r.equipment) <= 1
        /\ Len(r.connections) <= 1
        /\ \A i \in 1..Len(r.connections) : r.connections[i].to_id = "E9" }

\* str(e) of the errors the service call raises
ServiceErrors ==
    { << "Request timed out." >>,
      << "Error code: 401 - ", "Incorrect API key provided" >> }

\* f"{member}" of a str-mixin Enum: the member's value up to Python 3.10,
\* "EquipmentEnum.<name>" from Python 3.11 on
PyFormats == {"value", "str"}

format_enum(fmt, member) ==
    IF fmt = "value" THEN << EquipmentEnum[member] >>
    ELSE << "EquipmentEnum.", member >>

node_label(fmt, eq) == << eq.id, ": " >> \o format_enum(fmt, eq.type)

edge_label(fmt, conn) ==
    format_enum(fmt, conn.from_type) \o << " to " >>
        \o format_enum(fmt, conn.to_type)

\* extraction.dict() as st.json shows it: enum members serialise as values
ExtractionDict(ex) ==
    [equipment |->
        [i \in 1..Len(ex.equipment) |->
            [id |-> ex.equipment[i].id,
             type |-> EquipmentEnum[ex.equipment[i].type]]],
     connections |->
        [i \in 1..Len(ex.connections) |->
            [from_id |-> ex.connections[i].from_id,
             from_type |-> EquipmentEnum[ex.connections[i].from_type],
             to_id |-> ex.connections[i].to_id,
             to_type |-> EquipmentEnum[ex.connections[i].to_type]]]]

\* ------------------------------------------------------------ pyvis Network
\* Network(height="600px", width="100%", directed=False, notebook=False)
EmptyNetwork ==
    [nodes |-> <<>>, edges |-> <<>>, directed |-> FALSE,
     height |-> "600px", width |-> "100%", physics |-> TRUE]

node_ids(net) == { net.nodes[i].id : i \in 1..Len(net.nodes) }

\* Network.add_node: a node id already present is ignored
add_node_nodedup(net, n_id, label) ==
    [net EXCEPT !.nodes =
        Append(@, [id |-> n_id, label |-> label, title |-> label,
                   shape |-> "dot"])]

add_node(net, n_id, label) ==
    IF n_id \in node_ids(net) THEN net
    ELSE [net EXCEPT !.nodes =
            Append(@, [id |-> n_id, label |-> label, title |-> label,
                       shape |-> "dot"])]

\* Network.add_edge, the assertions: both endpoints must be nodes
non_existent(n_id) == << "non existent node '", n_id, "'" >>

add_edge_error_unchecked(net, source, to) == NoText

add_edge_error(net, source, to) ==
    IF source \notin node_ids(net) THEN non_existent(source)
    ELSE IF to \notin node_ids(net) THEN non_existent(to)
    ELSE NoText

\* Network.add_edge, the insertion: an undirected network keeps one edge
\* per unordered pair of endpoints
edge_exists(net, source, to) ==
    /\ ~net.directed
    /\ \E i \in 1..Len(net.edges) :
          \/ (source = net.edges[i].to /\ to = net.edges[i].from)
          \/ (source = net.edges[i].from /\ to = net.edges[i].to)

add_edge(net, source, to, title) ==
    IF edge_exists(net, source, to) THEN net
    ELSE [net EXCEPT !.edges =
            Append(@, [from |-> source, to |-> to, title |-> title])]

\* for eq in extraction.equipment: net.add_node(eq.id, label, title=label)
RECURSIVE AddNodes(_, _, _)
AddNodes(net, fmt, eqs) ==
    IF Len(eqs) = 0 THEN net
    ELSE AddNodes(add_node(net, Head(eqs).id, node_label(fmt, Head(eqs))),
                  fmt, Tail(eqs))

\* for conn in extraction.connections: net.add_edge(..., title=edge_label);
\* the first failing assertion ends the loop
RECURSIVE AddEdges(_, _, _)
AddEdges(net, fmt, conns) ==
    IF Len(conns) = 0 THEN [net |-> net, err |-> NoText]
    ELSE LET c == Head(conns)
             e == add_edge_error(net, c.from_id, c.to_id)
         IN  IF e # NoText THEN [net |-> net, err |-> e]
             ELSE AddEdges(add_edge(net, c.from_id, c.to_id,
                                    edge_label(fmt, c)),
                           fmt, Tail(conns))

\* lines 142-157: build the network, then net.toggle_physics(True)
BuildGraph_first(fmt, ex) ==
    IF Len(ex.equipment) = 0
    THEN [net |-> EmptyNetwork, err |-> << "list index out of range" >>]
    ELSE LET r == AddEdges(AddNodes(EmptyNetwork, fmt, ex.equipment),
                           fmt, ex.connections)
         IN  IF r.err # NoText THEN r
             ELSE [net |-> [r.net EXCEPT !.physics = TRUE],
                   err |-> NoText]

BuildGraph(fmt, ex) ==
    LET r == AddEdges(AddNodes(EmptyNetwork, fmt, ex.equipment),
                      fmt, ex.connections)
    IN  IF r.err # NoText THEN r
        ELSE [net |-> [r.net EXCEPT !.physics = TRUE], err |-> NoText]

\* net.save_graph: the page generated from the network's nodes and edges
generate_html(net) ==
    [doctype |-> "html", nodes |-> net.nodes, edges |-> net.edges,
     physics |-> net.physics, height |-> net.height, width |-> net.width]

\* ---------------------------------------------------------- error display
ErrPrefix == "Error processing the request: "

\* "Error processing the request: " + str(e)
ErrorText_generic(e) == << ErrPrefix >>

ErrorText(e) == << ErrPrefix >> \o e

\* str(FileNotFoundError) raised by open()
file_not_found(path) ==
    << "[Errno 2] No such file or directory: '", path, "'" >>

\* -------------------------------------------------------------------- state
VARIABLES
    files,          \* image path |-> bytes of the file, or Missing
    graphFile,      \* content of pyvis_graph.html, or NoValue if absent
    pyFormat,       \* how this Python formats a str-mixin Enum member
    selected,       \* per session: selected_image_name
    clicked,        \* per session: st.button returns True in this run
    pc,             \* per session: position of the script run
    base64_image,   \* per session: local of the handler
    extraction,     \* per session: local of the handler
    net,            \* per session: local of the handler
    html_graph,     \* per session: local of the handler
    dump,           \* per session: what st.json shows
    embedded,       \* per session: what components.html shows
    errorMsg,       \* per session: what st.error shows
    uncaught,       \* per session: exception that left the script
    calls,          \* per session: service calls made in this click
    visited,        \* per session: positions passed in this click
    fileAtClick,    \* per session: graphFile when the click started
    fileOps,        \* per session: accesses to pyvis_graph.html this click
    exc,            \* per session: the exception raised in this run
    encLog          \* encoder specification: the calls made so far

vars == << files, graphFile, pyFormat, selected, clicked, pc, base64_image,
           extraction, net, html_graph, dump, embedded, errorMsg, uncaught,
           calls, visited, fileAtClick, fileOps, exc, encLog >>

locals  == << base64_image, extraction, net, html_graph >>
outputs == << dump, embedded, errorMsg, uncaught, exc >>
world   == << files, pyFormat, encLog >>

Resting == {"Idle", "Rendered", "Failed", "Crashed"}

SampleBytes == << 77, 255 >>

InitSessions ==
    /\ selected     = [s \in Sessions |-> DefaultImage]
    /\ clicked      = [s \in Sessions |-> FALSE]
    /\ pc           = [s \in Sessions |-> "Idle"]
    /\ base64_image = [s \in Sessions |-> NoText]
    /\ extraction   = [s \in Sessions |-> NoValue]
    /\ net          = [s \in Sessions |-> NoValue]
    /\ html_graph   = [s \in Sessions |-> NoValue]
    /\ dump         = [s \in Sessions |-> NoValue]
    /\ embedded     = [s \in Sessions |-> NoValue]
    /\ errorMsg     = [s \in Sessions |-> NoText]
    /\ uncaught     = [s \in Sessions |-> NoText]
    /\ calls        = [s \in Sessions |-> 0]
    /\ visited      = [s \in Sessions |-> << "Idle" >>]
    /\ fileAtClick  = [s \in Sessions |-> NoValue]
    /\ fileOps      = [s \in Sessions |-> <<>>]
    /\ exc          = [s \in Sessions |-> NoText]

Init ==
    /\ files \in [Paths -> {Missing, SampleBytes}]
    /\ graphFile = NoValue
    /\ pyFormat \in PyFormats
    /\ encLog = {}
    /\ InitSessions

\* ------------------------------------------------------------------ actions
\* a rerun of the script from the top: the page is redrawn without the
\* previous run's outputs, the handler's locals are gone
Rerun(s) ==
    /\ base64_image' = [base64_image EXCEPT ![s] = NoText]
    /\ extraction'   = [extraction EXCEPT ![s] = NoValue]
    /\ net'          = [net EXCEPT ![s] = NoValue]
    /\ html_graph'   = [html_graph EXCEPT ![s] = NoValue]
    /\ dump'         = [dump EXCEPT ![s] = NoValue]
    /\ embedded'     = [embedded EXCEPT ![s] = NoValue]
    /\ errorMsg'     = [errorMsg EXCEPT ![s] = NoText]
    /\ uncaught'     = [uncaught EXCEPT ![s] = NoText]
    /\ calls'        = [calls EXCEPT ![s] = 0]
    /\ visited'      = [visited EXCEPT ![s] = << "Idle" >>]
    /\ fileAtClick'  = [fileAtClick EXCEPT ![s] = graphFile]
    /\ fileOps'      = [fileOps EXCEPT ![s] = <<>>]
    /\ exc'          = [exc EXCEPT ![s] = NoText]
    /\ pc'           = [pc EXCEPT ![s] = "Idle"]

Goto(s, p) ==
    /\ pc' = [pc EXCEPT ![s] = p]
    /\ visited' = [visited EXCEPT ![s] = Append(@, p)]

\* the user picks another diagram: the script reruns, the button is False
SelectImage(s) ==
    /\ pc[s] \in Resting /\ ~clicked[s]
    /\ \E n \in ImageNames \ {selected[s]} :
          selected' = [selected EXCEPT ![s] = n]
    /\ Rerun(s)
    /\ UNCHANGED << clicked, graphFile, world >>

\* the user clicks "Analyze Diagram": the script reruns down to the button
Click(s) ==
    /\ pc[s] \in Resting /\ ~clicked[s]
    /\ clicked' = [clicked EXCEPT ![s] = TRUE]
    /\ Rerun(s)
    /\ UNCHANGED << selected, graphFile, world >>

\* st.button(...) is True: the handler starts under the spinner
Begin(s) ==
    /\ pc[s] = "Idle" /\ clicked[s]
    /\ clicked' = [clicked EXCEPT ![s] = FALSE]
    /\ Goto(s, "Encoding")
    /\ UNCHANGED << selected, graphFile, world, locals, outputs, calls,
                    fileAtClick, fileOps >>

\* base64_image = encode_image(selected_image_path), then the prompt
EncodeOk(s) ==
    /\ pc[s] = "Encoding"
    /\ files[sample_images[selected[s]]] # Missing
    /\ base64_image' = [base64_image EXCEPT ![s] =
                          encode_image(files, sample_images[selected[s]])]
    /\ Goto(s, "Requesting")
    /\ UNCHANGED << selected, clicked, graphFile, world, extraction, net,
                    html_graph, outputs, calls, fileAtClick, fileOps >>

\* open() raises before the try block is entered: the exception leaves the
\* script and the runtime, not the handler, reports it
EncodeFail(s) ==
    /\ pc[s] = "Encoding"
    /\ files[sample_images[selected[s]]] = Missing
    /\ uncaught' = [uncaught EXCEPT ![s] =
                      file_not_found(sample_images[selected[s]])]
    /\ exc' = [exc EXCEPT ![s] =
                 file_not_found(sample_images[selected[s]])]
    /\ Goto(s, "Crashed")
    /\ UNCHANGED << selected, clicked, graphFile, world, locals, dump,
                    embedded, errorMsg, calls, fileAtClick, fileOps >>

\* client.beta.chat.completions.parse(...) returns; extraction = ...parsed
RequestOk(s, R) ==
    /\ pc[s] = "Requesting"
    /\ calls' = [calls EXCEPT ![s] = @ + 1]
    /\ \E r \in R : extraction' = [extraction EXCEPT ![s] = r]
    /\ Goto(s, "Rendering")
    /\ UNCHANGED << selected, clicked, graphFile, world, base64_image, net,
                    html_graph, outputs, fileAtClick, fileOps >>

\* the call raises: except Exception as e: st.error(... + str(e))
RequestFail_retry(s) ==
    /\ pc[s] = "Requesting"
    /\ calls' = [calls EXCEPT ![s] = @ + 1]
    /\ \E e \in ServiceErrors :
          IF calls[s] = 0
          THEN /\ Goto(s, "Requesting")
               /\ UNCHANGED << errorMsg, exc >>
          ELSE /\ errorMsg' = [errorMsg EXCEPT ![s] = ErrorText(e)]
               /\ exc' = [exc EXCEPT ![s] = e]
               /\ Goto(s, "Failed")
    /\ UNCHANGED << selected, clicked, graphFile, world, locals, dump,
                    embedded, uncaught, fileAtClick, fileOps >>

RequestFail(s) ==
    /\ pc[s] = "Requesting"
    /\ calls' = [calls EXCEPT ![s] = @ + 1]
    /\ \E e \in ServiceErrors :
          /\ errorMsg' = [errorMsg EXCEPT ![s] = ErrorText(e)]
          /\ exc' = [exc EXCEPT ![s] = e]
    /\ Goto(s, "Failed")
    /\ UNCHANGED << selected, clicked, graphFile, world, locals, dump,
                    embedded, uncaught, fileAtClick, fileOps >>

\* with col_output: st.json(extraction.dict())
ShowDump(s) ==
    /\ pc[s] = "Rendering"
    /\ dump' = [dump EXCEPT ![s] = ExtractionDict(extraction[s])]
    /\ Goto(s, "Dumped")
    /\ UNCHANGED << selected, clicked, graphFile, world, locals, embedded,
                    errorMsg, uncaught, exc, calls, fileAtClick, fileOps >>

\* the node and edge loops and toggle_physics complete
BuildOk(s) ==
    /\ pc[s] = "Dumped"
    /\ BuildGraph(pyFormat, extraction[s]).err = NoText
    /\ net' = [net EXCEPT ![s] = BuildGraph(pyFormat, extraction[s]).net]
    /\ Goto(s, "Built")
    /\ UNCHANGED << selected, clicked, graphFile, world, base64_image,
                    extraction, html_graph, outputs, calls, fileAtClick,
                    fileOps >>

\* net.add_edge raises AssertionError; the except clause shows it
BuildFail_saved(s) ==
    /\ pc[s] = "Dumped"
    /\ BuildGraph(pyFormat, extraction[s]).err # NoText
    /\ errorMsg' = [errorMsg EXCEPT ![s] =
                      ErrorText(BuildGraph(pyFormat, extraction[s]).err)]
    /\ exc' = [exc EXCEPT ![s] = BuildGraph(pyFormat, extraction[s]).err]
    /\ graphFile' =
          generate_html(BuildGraph(pyFormat, extraction[s]).net)
    /\ Goto(s, "Failed")
    /\ UNCHANGED << selected, clicked, world, locals, dump, embedded,
                    uncaught, calls, fileAtClick, fileOps >>

BuildFail(s) ==
    /\ pc[s] = "Dumped"
    /\ BuildGraph(pyFormat, extraction[s]).err # NoText
    /\ errorMsg' = [errorMsg EXCEPT ![s] =
                      ErrorText(BuildGraph(pyFormat, extraction[s]).err)]
    /\ exc' = [exc EXCEPT ![s] = BuildGraph(pyFormat, extraction[s]).err]
    /\ Goto(s, "Failed")
    /\ UNCHANGED << selected, clicked, graphFile, world, locals, dump,
                    embedded, uncaught, calls, fileAtClick, fileOps >>

\* net.save_graph("pyvis_graph.html")
SaveGraph(s) ==
    /\ pc[s] = "Built"
    /\ graphFile' = generate_html(net[s])
    /\ fileOps' = [fileOps EXCEPT ![s] = Append(@, "write")]
    /\ Goto(s, "Saved")
    /\ UNCHANGED << selected, clicked, world, locals, outputs, calls,
                    fileAtClick >>

\* html_graph = f.read(); components.html(html_graph, height=650)
ReadAndEmbed(s) ==
    /\ pc[s] = "Saved"
    /\ html_graph' = [html_graph EXCEPT ![s] = graphFile]
    /\ embedded' = [embedded EXCEPT ![s] =
                      [html |-> graphFile, height |-> 650]]
    /\ fileOps' = [fileOps EXCEPT ![s] = Append(@, "read")]
    /\ Goto(s, "Rendered")
    /\ UNCHANGED << selected, clicked, graphFile, world, base64_image,
                    extraction, net, dump, errorMsg, uncaught, exc, calls,
                    fileAtClick >>

Step(s, R) ==
    \/ SelectImage(s)
    \/ Click(s)
    \/ Begin(s)
    \/ EncodeOk(s)
    \/ EncodeFail(s)
    \/ RequestOk(s, R)
    \/ RequestFail(s)
    \/ ShowDump(s)
    \/ BuildOk(s)
    \/ BuildFail(s)
    \/ SaveGraph(s)
    \/ ReadAndEmbed(s)

\* one session, one click at a time
Next == \E s \in OneSession : Step(s, Results)

Spec == Init /\ [][Next]_vars

\* two sessions of the page served by the same process and directory
NextConc == \E s \in Sessions : Step(s, SmallResults)

InitConc ==
    /\ files = [p \in Paths |->
                  IF p = "images/pfd.png" THEN SampleBytes ELSE Missing]
    /\ graphFile = NoValue
    /\ pyFormat \in PyFormats
    /\ encLog = {}
    /\ InitSessions

SpecConc == InitConc /\ [][NextConc]_vars

\* ------------------------------------------------- encoder specification
ByteValues == {0, 77, 255}

ImageContents == SeqsUpTo(ByteValues, MaxBytes)

InitEnc ==
    /\ files \in [Paths -> ImageContents]
    /\ graphFile = NoValue
    /\ pyFormat = "str"
    /\ encLog = {}
    /\ InitSessions

\* one call of encode_image on an existing file
EncodeCall ==
    /\ \E p \in Paths :
          encLog' = encLog \cup
              { [path |-> p, bytes |-> files[p],
                 out |-> encode_image(files, p)] }
    /\ UNCHANGED << files, graphFile, pyFormat, selected, clicked, pc,
                    locals, outputs, calls, visited, fileAtClick, fileOps >>

NextEnc == EncodeCall

SpecEnc == InitEnc /\ [][NextEnc]_vars

\* ------------------------------------------------------------- properties
Terminal == {"Rendered", "Failed", "Crashed"}

\* an error is on the page: shown by the handler or by the runtime
ErrorVisible(s) == errorMsg[s] # NoText \/ uncaught[s] # NoText

\* the run of s failed in the service call (no result was obtained)
ServiceFailed(s) ==
    pc[s] = "Failed" /\ calls[s] = 1 /\ extraction[s] = NoValue

\* C1: when the service call raises, the click ends with no structured dump
\* and no embedded graph, and the message shown contains str(e) of the
\* raised error.
C1_ServiceErrorOnlyMessage ==
    \A s \in Sessions :
        ServiceFailed(s) =>
            /\ dump[s] = NoValue
            /\ embedded[s] = NoValue
            /\ exc[s] \in ServiceErrors
            /\ errorMsg[s] # NoText
            /\ Contains(errorMsg[s], exc[s])

C1_Witness ==
    \E s \in Sessions :
        /\ ServiceFailed(s)
        /\ exc[s] = << "Error code: 401 - ", "Incorrect API key provided" >>

\* C2: when the selected image cannot be opened, the click flow's error
\* handler shows a message containing the I/O error's text, and the service
\* call is never attempted.
C2_EncodeFailureHandled ==
    \A s \in Sessions :
        (pc[s] \in Terminal /\ files[sample_images[selected[s]]] = Missing)
            => /\ calls[s] = 0
               /\ errorMsg[s] # NoText
               /\ Contains(errorMsg[s],
                           file_not_found(sample_images[selected[s]]))

\* C3: every click ends either Rendered (dump and graph shown, no error) or
\* Failed (error shown, neither dump nor graph shown).
C3_TerminalAllOrNothing ==
    \A s \in Sessions :
        pc[s] \in Terminal =>
            \/ /\ pc[s] = "Rendered"
               /\ dump[s] # NoValue /\ embedded[s] # NoValue
               /\ ~ErrorVisible(s)
            \/ /\ pc[s] # "Rendered"
               /\ ErrorVisible(s)
               /\ dump[s] = NoValue /\ embedded[s] = NoValue

\* the first entry of a list that satisfies P
FirstEquipment(ex, n_id) ==
    ex.equipment[CHOOSE i \in 1..Len(ex.equipment) :
        /\ ex.equipment[i].id = n_id
        /\ \A j \in 1..(i - 1) : ex.equipment[j].id # n_id]

Ends(c) == {c.from_id, c.to_id}

FirstConnection(ex, pair) ==
    ex.connections[CHOOSE i \in 1..Len(ex.connections) :
        /\ Ends(ex.connections[i]) = pair
        /\ \A j \in 1..(i - 1) : Ends(ex.connections[j]) # pair]

EquipmentIds(ex) == { ex.equipment[i].id : i \in 1..Len(ex.equipment) }

ConnectionPairs(ex) ==
    { Ends(ex.connections[i]) : i \in 1..Len(ex.connections) }

Rank(p) ==
    CASE p = "Idle" -> 0
      [] p = "Encoding" -> 1
      [] p = "Requesting" -> 2
      [] p = "Rendering" -> 3
      [] p = "Dumped" -> 4
      [] p = "Built" -> 5
      [] p = "Saved" -> 6
      [] p \in Terminal -> 7

\* C5: within a click the flow only moves forward from Idle through
\* Encoding and Requesting to Rendered or Failed: no position is entered
\* twice, the request is issued only after encoding completed, rendering
\* starts only after a parsed result was returned, the service is called at
\* most once, and a click starts from Idle with nothing left of the last.
C5_ForwardOnly ==
    \A s \in Sessions :
        /\ visited[s][1] = "Idle"
        /\ visited[s][Len(visited[s])] = pc[s]
        /\ \A i \in 1..(Len(visited[s]) - 1) :
              Rank(visited[s][i]) < Rank(visited[s][i + 1])
        /\ calls[s] <= 1
        /\ pc[s] = "Idle" =>
              /\ calls[s] = 0
              /\ base64_image[s] = NoText /\ extraction[s] = NoValue
              /\ dump[s] = NoValue /\ embedded[s] = NoValue
              /\ errorMsg[s] = NoText
        /\ pc[s] = "Requesting" =>
              /\ base64_image[s] # NoText
              /\ visited[s] = << "Idle", "Encoding", "Requesting" >>
              /\ calls[s] = 0
        /\ calls[s] = 1 => base64_image[s] # NoText
        /\ pc[s] \in {"Rendering", "Dumped", "Built", "Saved", "Rendered"}
              => /\ calls[s] = 1
                 /\ extraction[s] # NoValue
                 /\ SubSeq(visited[s], 1, 4) =
                      << "Idle", "Encoding", "Requesting", "Rendering" >>
        /\ (dump[s] # NoValue \/ net[s] # NoValue \/ embedded[s] # NoValue)
              => extraction[s] # NoValue

C5_Witness ==
    \E s \in Sessions :
        visited[s] = << "Idle", "Encoding", "Requesting", "Rendering",
                        "Dumped", "Built", "Saved", "Rendered" >>

\* C6: the graph a run embeds is the graph built from that run's own
\* extraction result, whatever other runs do to pyvis_graph.html.
C6_EmbedsOwnGraph ==
    \A s \in Sessions :
        embedded[s] # NoValue =>
            embedded[s].html =
                generate_html(BuildGraph(pyFormat, extraction[s]).net)

EmptyResult == [equipment |-> <<>>, connections |-> <<>>]

\* C7: an extraction result with no equipment and no connections raises no
\* error; the click goes on to Rendered, where the dump shows two empty
\* lists and the saved and embedded graph has no node and no edge.
C7_EmptyResultRenders ==
    \A s \in OneSession :
        extraction[s] = EmptyResult =>
            /\ pc[s] \notin {"Failed", "Crashed"}
            /\ ~ErrorVisible(s) /\ exc[s] = NoText
            /\ pc[s] # "Rendered" =>
                  ENABLED (ShowDump(s) \/ BuildOk(s) \/ SaveGraph(s)
                              \/ ReadAndEmbed(s))
            /\ pc[s] = "Rendered" =>
                  /\ dump[s] = [equipment |-> <<>>, connections |-> <<>>]
                  /\ graphFile # NoValue
                  /\ graphFile.nodes = <<>> /\ graphFile.edges = <<>>
                  /\ embedded[s] # NoValue
                  /\ embedded[s].html.nodes = <<>>
                  /\ embedded[s].html.edges = <<>>

C7_Witness ==
    \E s \in OneSession :
        /\ pc[s] = "Rendered" /\ extraction[s] = EmptyResult
        /\ embedded[s] # NoValue

\* C8: two calls of encode_image on files with the same bytes return the
\* same text, whatever the path, and the text is the base64 form of exactly
\* the file's bytes (it decodes back to them, nothing added or removed).
C8_EncodeDeterministic ==
    \A a \in encLog :
        /\ b64decode(a.out) = a.bytes
        /\ Len(a.out) = 4 * ((Len(a.bytes) + 2) \div 3)
        /\ \A b \in encLog : a.bytes = b.bytes => a.out = b.out

C8_Witness ==
    \E a \in encLog : \E b \in encLog :
        /\ a.path # b.path /\ a.bytes = b.bytes /\ Len(a.bytes) = MaxBytes
        /\ a.out = b.out

\* a connection endpoint that is no equipment id
Dangling(ex) ==
    { i \in 1..Len(ex.connections) :
        ~(Ends(ex.connections[i]) \subseteq EquipmentIds(ex)) }

FirstDanglingId(ex) ==
    LET i == CHOOSE k \in Dangling(ex) : \A j \in Dangling(ex) : k <= j
        c == ex.connections[i]
    IN  IF c.from_id \notin EquipmentIds(ex) THEN c.from_id ELSE c.to_id

\* C9 as claimed: a connection to an id that is no equipment id raises no
\* error; the click still ends Rendered with dump and graph shown.
C9_DanglingEdgeRenders ==
    \A s \in Sessions :
        (pc[s] \in Terminal /\ extraction[s] # NoValue
            /\ Dangling(extraction[s]) # {})
          => /\ pc[s] = "Rendered"
             /\ ~ErrorVisible(s)
             /\ dump[s] # NoValue /\ embedded[s] # NoValue

\* C9 as amended: the flow itself does not validate such a connection; it is
\* passed to the rendering layer, whose add_edge rejects it: no graph is
\* built, saved or embedded, and the click ends Failed with a message that
\* contains "non existent node '<id>'" for the first such endpoint.
C9_DanglingEdgeRejected ==
    \A s \in Sessions :
        (extraction[s] # NoValue /\ Dangling(extraction[s]) # {})
          => /\ pc[s] \in {"Rendering", "Dumped", "Failed"}
             /\ net[s] = NoValue /\ embedded[s] = NoValue
             /\ fileOps[s] = <<>>
             /\ pc[s] = "Failed" =>
                   Contains(errorMsg[s],
                       << "non existent node '",
                          FirstDanglingId(extraction[s]), "'" >>)

C9_Witness ==
    \E s \in Sessions :
        /\ pc[s] = "Failed" /\ extraction[s] # NoValue
        /\ Dangling(extraction[s]) # {}
        /\ errorMsg[s] # NoText

\* C10: pyvis_graph.html is written only once the service call succeeded and
\* every node and edge was added; a click that fails (encoding, service call
\* or graph construction) leaves the file as it was when the click started
\* and neither reads nor embeds it.
C10_FileWrittenOnlyAfterBuild ==
    \A s \in OneSession :
        /\ pc[s] \in {"Failed", "Crashed"} =>
              /\ graphFile = fileAtClick[s]
              /\ fileOps[s] = <<>>
              /\ html_graph[s] = NoValue /\ embedded[s] = NoValue
        /\ (fileOps[s] # <<>> \/ graphFile # fileAtClick[s]) =>
              /\ pc[s] \in {"Saved", "Rendered"}
              /\ net[s] # NoValue
              /\ BuildGraph(pyFormat, extraction[s]).err = NoText
              /\ graphFile = generate_html(net[s])

C10_Witness ==
    \E s \in OneSession :
        /\ pc[s] = "Failed" /\ extraction[s] # NoValue
        /\ fileAtClick[s] # NoValue
        /\ graphFile = fileAtClick[s]

====
